---- MODULE Spec2Model ----
(***************************************************************************)
(* Model of the path tracer's GPU dispatch engine (VulkanRenderer), of the *)
(* scene layer's material interning pass (SceneManager), of the kernel     *)
(* composer (ShaderCompiler) and of the voxel volume (Volumetric).         *)
(*                                                                         *)
(* The host is a single thread: pc names the API call it is inside, or     *)
(* "idle" between calls.  The device executes submitted command buffers    *)
(* asynchronously (GpuExecute).                                            *)
(***************************************************************************)
EXTENDS Integers, Sequences, FiniteSets, TLC

\* ---------------------------------------------------------------- bounds
MaxRenders == 3      \* render calls per behaviour
MaxTransfers == 1    \* present + readbackOutputImage calls per behaviour
MaxUpdates == 1      \* updateScene calls per behaviour
MaxReuploads == 2    \* updateScene calls per behaviour of SpecUpload
MaxExtent == 17      \* largest output image width and height of SpecDispatch
MaxShutdowns == 2    \* shutdown calls per behaviour (explicit + destructor)
MaxUpload == 3       \* largest array length handed to updateScene
MaxEntities == 4     \* entities over all scene containers
MaxSetMaterial == 1  \* setMaterial calls per behaviour
MaxPrepares == 2     \* prepareForRender calls per behaviour
NumMaterials == 3    \* distinct Material instances of a scene
NumPaths == 3        \* file names of the surface shader directory
MaxRes == 2          \* largest voxel resolution on an axis
VoxelSize == 4       \* edge of a voxel (thickness * scale), in length units
Reach == 3           \* largest distance of a ray origin from the box

\* ------------------------------------------------------ program constants
MAX_FRAMES_IN_FLIGHT == 2
Slots == 0 .. (MAX_FRAMES_IN_FLIGHT - 1)

\* Handles of VulkanRenderer that are declared "= VK_NULL_HANDLE" (or are
\* vectors, which start empty).  The three vectors are modelled as one
\* handle each: "set" when the vector holds created objects.
HandleNames ==
  { "vkInstance", "vkDevice", "vkCommandPool",
    "vkPipelineLayout", "vkComputePipeline",
    "vkDescriptorSetLayout", "vkDescriptorPool",
    "vkOutputImage", "vkOutputImageMemory", "vkOutputImageView",
    "vkSphereBuffer", "vkSphereBufferMemory",
    "vkEllipsoidBuffer", "vkEllipsoidBufferMemory",
    "vkMaterialBuffer", "vkMaterialBufferMemory",
    "vkLightBuffer", "vkLightBufferMemory",
    "vkVolumeBuffer", "vkVolumeBufferMemory",
    "vkVoxelDataBuffer", "vkVoxelDataBufferMemory",
    "vkSurface", "vkSwapchain", "vkSwapchainImageViews",
    "vkImageAvailableSemaphores", "vkRenderFinishedSemaphores",
    "vkReadbackBuffer", "vkReadbackBufferMemory" }

\* The six host-visible storage buffers written by updateScene.
BufferNames ==
  { "vkSphereBuffer", "vkEllipsoidBuffer", "vkMaterialBuffer",
    "vkLightBuffer", "vkVolumeBuffer", "vkVoxelDataBuffer" }

\* Capacity, in records, of every storage buffer of the model (the code
\* fixes 100 spheres, 100 ellipsoids, 100 materials, 32 lights, 32 volumes
\* and 50 MB of voxels; the model scales all of them to BufCap records).
BufCap == 2

VARIABLES
  pc,               \* API call the host is inside, or "idle"
  hasWindow,        \* the SDL_Window* handed to initialize is non-null
  initStep,         \* number of initialize steps that have run
  initLog,          \* history: <<step name, succeeded>> of every step run
  initResult,       \* "none" | "true" | "false": what initialize returned
  shutdowns,        \* number of shutdown calls that have returned
  vkHandle,         \* value of each handle member: "null" | "set"
  vkInFlightFences, \* value of each fence member: "null" | "set" | "garbage"
  object,           \* device object behind each handle
  fenceObject,      \* device object behind each fence
  destroyLog,       \* history: names passed to vkDestroy*/vkFree*, in order
  bogusDestroy,     \* history: names destroyed through a handle never assigned
  currentFrame,     \* VulkanRenderer::currentFrame
  fenceSignaled,    \* device-side state of each slot's fence
  subs,             \* every vkQueueSubmit so far, in submission order
  renderCalls,      \* number of render calls begun
  transferCalls,    \* number of present/readback calls begun
  outputLayout,     \* layout the output image is in on the device
  barriers,         \* history: <<declared old, actual old, new>> executed
  accesses,         \* history: <<operation, layout at the access>>
  imageReads,       \* history: reads of the output image
  bufData,          \* contents of each storage buffer (upload stamps)
  updates,          \* number of updateScene calls
  hostWrites,       \* history: host writes into storage buffers
  overflow,         \* history: copies that did not stay inside their
                    \* buffer, as [buffer, cause]
  lastUpload,       \* history: the array lengths of the last updateScene
  renderLog,        \* history: the calls of the last render, in order, each
                    \* with the value of currentFrame it used
  windowWidth,      \* VulkanRenderer::windowWidth
  windowHeight,     \* VulkanRenderer::windowHeight
  groupCount,       \* << >> or the <<groupCountX, groupCountY>> of the last
                    \* vkCmdDispatch
  spheres, ellipsoids, volumes,  \* scene containers
  outMaterials,     \* output of the last prepareForRender
  prepared,         \* container order of the last prepareForRender, or
                    \* << >> when an entity was added or changed since
  setCalls,         \* number of setMaterial calls
  prepareCalls,     \* number of prepareForRender calls
  surfaceDir,       \* contents of the surface shader directory
  shaderPathToIndex, \* the path-to-index map (shaderPathToIndex_)
  composed,         \* << >> or <<result of loadAndInjectSurfaceShaders,
                    \*            contents of the map at the call>>
  pipelineError,    \* history: what made createComputePipeline fail
  packed,           \* << >> or <<shader path, index written by toGPU,
                    \*            the GPUMaterial, the material packed>>
  resolution,       \* Volumetric::_resolution
  volumeData,       \* Volumetric::_data, indexed from 0
  lookup,           \* << >> or <<a Value / getDensity call and its result>>
  hitResult,        \* << >> or <<a Volumetric::hit call and its result>>
  exitResult        \* << >> or <<a getExitPoint call and its result>>

rvars == << pc, hasWindow, initStep, initLog, initResult, shutdowns, vkHandle,
            vkInFlightFences, object, fenceObject, destroyLog, bogusDestroy,
            currentFrame, fenceSignaled, subs, renderCalls, transferCalls,
            outputLayout, barriers, accesses, imageReads, bufData, updates,
            hostWrites, overflow, lastUpload, renderLog, windowWidth,
            windowHeight, groupCount >>

svars == << spheres, ellipsoids, volumes, outMaterials, prepared, setCalls,
            prepareCalls >>

cvars == << surfaceDir, shaderPathToIndex, composed, pipelineError, packed >>

vvars == << resolution, volumeData, lookup, hitResult, exitResult >>

vars == << rvars, svars, cvars, vvars >>

\* ------------------------------------------------- shader composition
\* File names of the surface shader directory, in the order of
\* std::map<std::string, ...> (ascending path).  Path 0 is the empty
\* string and NumPaths + 1 is a path that is not in the directory.
Paths == 1 .. NumPaths

\* Source text is a sequence of tokens: "M" is the marker
\* "SurfaceShaderResult ", "(" an opening parenthesis, anything else a
\* piece of other text.
Marker == "M"

Paren == "("

\* Module texts: one function f, one function g, a helper call followed
\* by two functions, a text without the marker, and a marker that no "("
\* follows.
CodeSamples ==
  { << "M", "f", "(" >>,
    << "M", "g", "(" >>,
    << "h", "(", "M", "f", "(", "M", "g", "(" >>,
    << "f", "(" >>,
    << "M", "f" >> }

\* A directory entry: absent, something that is not a regular *.glsl
\* file, a *.glsl file that cannot be opened, or a *.glsl file.
FileEntries ==
  { [ kind |-> k, code |-> << >> ] : k \in { "absent", "other", "unreadable" } }
  \cup { [ kind |-> "glsl", code |-> c ] : c \in CodeSamples }

Directories == [ Paths -> FileEntries ]

\* The three placeholders the template may contain.
Placeholders ==
  { "// SURFACE_SHADERS_PLACEHOLDER",
    "// SURFACE_SHADER_DISPATCH_PLACEHOLDER",
    "// SURFACE_SHADER_DISPATCH_FOR_SPHERE_EMISSIVE" }

\* std::string::find(tok, from): the first position >= from, 0 for npos.
Find(code, tok, from) ==
  LET hits == { i \in from .. Len(code) : code[i] = tok }
  IN IF hits = {} THEN 0
     ELSE CHOOSE i \in hits : \A j \in hits : i <= j

\* nameStart = funcPos + 20: the position after the marker.
NameStartAtMarker(funcPos) ==
  funcPos

NameStart(funcPos) ==
  funcPos + 1

\* The function name of a module: the text between the first marker and
\* the next "(", empty when either is missing.
ExtractFunctionName(code) ==
  LET funcPos == Find(code, Marker, 1)
  IN IF funcPos = 0 THEN << >>
     ELSE LET nameStart == NameStart(funcPos)
              nameEnd == Find(code, Paren, nameStart)
          IN IF nameEnd = 0 THEN << >>
             ELSE SubSeq(code, nameStart, nameEnd - 1)

\* Orders in which fs::directory_iterator can enumerate a set of files.
RECURSIVE Enumerations(_)
Enumerations(S) ==
  IF S = {} THEN { << >> }
  ELSE UNION { { << p >> \o e : e \in Enumerations(S \ { p }) } : p \in S }

\* loadSurfaceShaderFiles: the std::map path -> code of the regular *.glsl
\* files, filled in enumeration order; readTextFile throws on a file that
\* cannot be opened; a missing directory gives the empty map.
RECURSIVE InsertFiles(_, _, _, _)
InsertFiles(dir, enum, k, shaders) ==
  IF k > Len(enum) THEN [ threw |-> FALSE, shaders |-> shaders ]
  ELSE LET p == enum[k]
       IN IF dir[p].kind = "unreadable"
            THEN [ threw |-> TRUE, shaders |-> shaders ]
            ELSE IF dir[p].kind = "glsl"
              THEN InsertFiles(dir, enum, k + 1,
                     [ q \in (DOMAIN shaders) \cup { p } |->
                         IF q = p THEN dir[p].code ELSE shaders[q] ])
              ELSE InsertFiles(dir, enum, k + 1, shaders)

loadSurfaceShaderFiles(exists, dir, enum) ==
  IF ~exists THEN [ threw |-> FALSE, shaders |-> << >> ]
  ELSE InsertFiles(dir, enum, 1, << >>)

\* Iteration order of std::map: ascending key.
RECURSIVE Ascending(_)
Ascending(S) ==
  IF S = {} THEN << >>
  ELSE LET m == CHOOSE x \in S : \A y \in S : x <= y
       IN << m >> \o Ascending(S \ { m })

\* The order in which the loop of loadAndInjectSurfaceShaders visits the
\* map filled from the enumeration enum: std::map iterates by key.
InsertionOrder(shaders, enum) ==
  SelectSeq(enum, LAMBDA p : p \in DOMAIN shaders)

MapOrder(shaders, enum) ==
  Ascending(DOMAIN shaders)

\* shaderIndex++ at the end of an iteration.
ShaderIndexStuck(shaderIndex) ==
  shaderIndex

NextShaderIndex(shaderIndex) ==
  shaderIndex + 1

\* One branch of a dispatch ladder: " else " unless first, the index it
\* compares with, the function it calls.
Branch(first, shaderIndex, functionName) ==
  [ else |-> ~first, index |-> shaderIndex, call |-> functionName ]

\* One iteration of the loop over surfaceShaders.
InjectOne(st, filepath, code) ==
  LET functionName == ExtractFunctionName(code)
  IN [ map |-> [ q \in (DOMAIN st.map) \cup { filepath } |->
                   IF q = filepath THEN st.shaderIndex ELSE st.map[q] ],
       injectedCode |-> Append(st.injectedCode,
                          [ index |-> st.shaderIndex, path |-> filepath,
                            code |-> code ]),
       dispatchCode |-> Append(st.dispatchCode,
                          Branch(st.first, st.shaderIndex, functionName)),
       dispatchCodeSphere |-> Append(st.dispatchCodeSphere,
                          Branch(st.firstSphere, st.shaderIndex, functionName)),
       first |-> FALSE,
       firstSphere |-> FALSE,
       shaderIndex |-> NextShaderIndex(st.shaderIndex) ]

RECURSIVE InjectFrom(_, _, _, _)
InjectFrom(st, order, k, shaders) ==
  IF k > Len(order) THEN st
  ELSE InjectFrom(InjectOne(st, order[k], shaders[order[k]]), order, k + 1,
                  shaders)

\* outPathToIndex.clear() before the loop.
ClearedMap(prior) ==
  << >>

\* The template with every placeholder it contains replaced.
Substitute(template, st) ==
  [ ph \in template |->
      IF ph = "// SURFACE_SHADERS_PLACEHOLDER" THEN st.injectedCode
      ELSE IF ph = "// SURFACE_SHADER_DISPATCH_PLACEHOLDER"
        THEN st.dispatchCode
        ELSE st.dispatchCodeSphere ]

\* ShaderCompiler::loadAndInjectSurfaceShaders.  readable: the template
\* can be opened; template: the placeholders it contains; prior: the
\* contents of outPathToIndex at the call.
loadAndInjectSurfaceShaders(readable, template, exists, dir, enum, prior) ==
  LET files == loadSurfaceShaderFiles(exists, dir, enum)
      none == [ threw |-> TRUE, map |-> prior, mainShader |-> << >>,
                dispatchCode |-> << >>, dispatchCodeSphere |-> << >> ]
  IN IF ~readable \/ files.threw THEN none
     ELSE LET st == InjectFrom(
                      [ map |-> ClearedMap(prior), injectedCode |-> << >>,
                        dispatchCode |-> << >>, dispatchCodeSphere |-> << >>,
                        first |-> TRUE, firstSphere |-> TRUE,
                        shaderIndex |-> 1 ],
                      MapOrder(files.shaders, enum), 1, files.shaders)
          IN [ threw |-> FALSE, map |-> st.map,
               mainShader |-> Substitute(template, st),
               dispatchCode |-> st.dispatchCode,
               dispatchCodeSphere |-> st.dispatchCodeSphere ]

\* The files fs::directory_iterator visits.
Listed(dir) ==
  { p \in Paths : dir[p].kind # "absent" }

\* A caller hands its map to loadAndInjectSurfaceShaders.
LoadAndInjectCall ==
  /\ composed = << >>
  /\ \E readable \in BOOLEAN, exists \in BOOLEAN,
        template \in SUBSET Placeholders,
        enum \in Enumerations(Listed(surfaceDir)) :
       LET r == loadAndInjectSurfaceShaders(readable, template, exists,
                  surfaceDir, enum, shaderPathToIndex)
       IN /\ exists \/ Listed(surfaceDir) = {}
          /\ composed' = << r, shaderPathToIndex,
                            [ readable |-> readable, exists |-> exists,
                              template |-> template ] >>
          /\ shaderPathToIndex' = r.map
  /\ UNCHANGED << surfaceDir, pipelineError, packed, rvars, svars, vvars >>

\* The shader-index part of Material::toGPU(shaderPathToIndex).
ResolveWithoutMap(map, shaderPath) ==
  0

ResolveShaderIndex(map, shaderPath) ==
  IF shaderPath # 0 /\ shaderPath \in DOMAIN map THEN map[shaderPath] ELSE 0

\* Field values of a material, in tenths: one with every field
\* different, and the default-constructed one.
MaterialSamples ==
  { [ color |-> << 1, 2, 3 >>, ambient |-> 4, diffuse |-> 5, specular |-> 6,
      shininess |-> 7, reflectivity |-> 8, transparency |-> 9,
      emissiveStrength |-> 10, emissive |-> << 11, 12, 13 >>,
      scatterColor |-> << 14, 15, 16 >>, absorptionCoeff |-> 17 ],
    [ color |-> << 10, 10, 10 >>, ambient |-> 1, diffuse |-> 5, specular |-> 5,
      shininess |-> 320, reflectivity |-> 0, transparency |-> 0,
      emissiveStrength |-> 0, emissive |-> << 0, 0, 0 >>,
      scatterColor |-> << 0, 0, 0 >>, absorptionCoeff |-> 0 ] }

\* static_cast<float>(int): the nearest value with a 24-bit significand.
RECURSIVE Quantum(_, _)
Quantum(a, q) ==
  IF a \div q < 2^24 THEN q ELSE Quantum(a, 2 * q)

FloatOfInt(i) ==
  LET a == IF i < 0 THEN -i ELSE i
      q == Quantum(a, 1)
      r == ((a + (q \div 2)) \div q) * q
  IN IF i < 0 THEN -r ELSE r

\* gpu.transparencyEmissive; the mutant is the packer that has no map.
TransparencyGroupWithoutIndex(m, shaderIndex) ==
  << m.transparency, m.emissiveStrength, 0, 0 >>

TransparencyGroup(m, shaderIndex) ==
  << m.transparency, m.emissiveStrength, FloatOfInt(shaderIndex), 0 >>

\* Material::toGPU(shaderPathToIndex): the five groups of GPUMaterial.
toGPU(m, map, shaderPath) ==
  LET shaderIndex == ResolveShaderIndex(map, shaderPath)
  IN [ colorAndAmbient |->
         << m.color[1], m.color[2], m.color[3], m.ambient >>,
       diffuseSpecularShiny |->
         << m.diffuse, m.specular, m.shininess, m.reflectivity >>,
       transparencyEmissive |-> TransparencyGroup(m, shaderIndex),
       emissive |->
         << m.emissive[1], m.emissive[2], m.emissive[3], 0 >>,
       scatterAndAbsorption |->
         << m.scatterColor[1], m.scatterColor[2], m.scatterColor[3],
            m.absorptionCoeff >> ]

\* A material with some shader path is packed with the composer's map.
MaterialToGPU ==
  /\ composed # << >>
  /\ packed = << >>
  /\ \E shaderPath \in 0 .. (NumPaths + 1), m \in MaterialSamples :
       packed' = << shaderPath,
                    ResolveShaderIndex(shaderPathToIndex, shaderPath),
                    toGPU(m, shaderPathToIndex, shaderPath), m >>
  /\ UNCHANGED << surfaceDir, shaderPathToIndex, composed, pipelineError,
                  rvars, svars, vvars >>

\* ------------------------------------------------------------ initialize
\* The fixed order of VulkanRenderer::initialize.
InitOrder ==
  << "createInstance", "selectPhysicalDevice", "createLogicalDevice",
     "createCommandPool", "createBuffers", "createDescriptorSets",
     "createComputePipeline", "createSwapChain" >>

\* What each step creates, in the order of its code.  Entries starting
\* with "#" are operations that can fail but leave no handle member.
createBuffersOrder ==
  << "vkSphereBuffer", "vkSphereBufferMemory",
     "vkEllipsoidBuffer", "vkEllipsoidBufferMemory",
     "vkMaterialBuffer", "vkMaterialBufferMemory",
     "vkLightBuffer", "vkLightBufferMemory",
     "vkVolumeBuffer", "vkVolumeBufferMemory",
     "vkVoxelDataBuffer", "vkVoxelDataBufferMemory" >>

createDescriptorSetsOrder ==
  << "vkDescriptorSetLayout", "vkDescriptorPool", "#vkDescriptorSet" >>

createComputePipelineOrder ==
  << "#loadAndInjectSurfaceShaders", "#tempFile", "#compileShader",
     "#shaderModule", "vkPipelineLayout", "vkComputePipeline" >>

createSwapChainOrder(window) ==
  (IF window
     THEN << "vkSurface", "vkSwapchain", "vkSwapchainImageViews",
             "vkImageAvailableSemaphores", "vkRenderFinishedSemaphores" >>
     ELSE << >>)
  \o << "vkOutputImage", "vkOutputImageMemory", "#vkBindImageMemory",
        "vkOutputImageView" >>

\* The handles among the first n entries of a creation order.
Created(order, n) ==
  { order[i] : i \in 1 .. n } \cap HandleNames

\* Run one create* step: failAt = 0 means every operation succeeds,
\* failAt = j means operation j fails and the step returns false at once.
StepEffect(order, failAt) ==
  LET n == IF failAt = 0 THEN Len(order) ELSE failAt - 1
      made == Created(order, n)
  IN /\ vkHandle' = [h \in HandleNames |->
                       IF h \in made THEN "set" ELSE vkHandle[h]]
     /\ object' = [h \in HandleNames |->
                       IF h \in made THEN "live" ELSE object[h]]

\* if (!createX()) return false;  -- the mutant carries on after a failure.
StepReturnIgnoreFailure(ok, last) ==
  IF ~last THEN "none" ELSE "true"

StepReturn(ok, last) ==
  IF ok /\ ~last THEN "none" ELSE IF ok THEN "true" ELSE "false"

\* Common tail of every step of initialize.
StepDone(name, ok) ==
  LET r == StepReturn(ok, initStep + 1 = Len(InitOrder))
  IN /\ initStep' = initStep + 1
     /\ initLog' = Append(initLog, << name, ok >>)
     /\ initResult' = r
     /\ pc' = IF r = "none" THEN "initialize" ELSE "idle"

AtStep(k) ==
  /\ pc = "initialize"
  /\ initStep = k - 1

RenderUnchanged ==
  UNCHANGED << currentFrame, fenceSignaled, subs, renderCalls, transferCalls,
               outputLayout, barriers, accesses, imageReads, bufData, updates,
               hostWrites, overflow, lastUpload,
               renderLog, groupCount >>

SceneUnchanged ==
  UNCHANGED << svars, cvars, vvars >>

InitUnchanged ==
  UNCHANGED << hasWindow, windowWidth, windowHeight, initStep, initLog,
               initResult >>

HandlesUnchanged ==
  UNCHANGED << vkHandle, vkInFlightFences, object, fenceObject, destroyLog,
               bogusDestroy >>

\* The window size of both main programs.
WINDOW_WIDTH == 800

WINDOW_HEIGHT == 600

\* VulkanRenderer::initialize is entered, with or without a window and
\* with the size the main programs pass.
InitializeCall ==
  /\ pc = "idle"
  /\ initResult = "none"
  /\ initStep = 0
  /\ shutdowns = 0
  /\ \E w \in BOOLEAN : hasWindow' = w
  /\ windowWidth' = WINDOW_WIDTH
  /\ windowHeight' = WINDOW_HEIGHT
  /\ pc' = "initialize"
  /\ UNCHANGED << initStep, initLog, initResult, shutdowns >>
  /\ HandlesUnchanged /\ RenderUnchanged /\ SceneUnchanged

\* What a step made only of handle creations leaves alone.
StepUnchanged ==
  /\ UNCHANGED << hasWindow, windowWidth, windowHeight, shutdowns,
                  vkInFlightFences, fenceObject, destroyLog, bogusDestroy >>
  /\ RenderUnchanged /\ SceneUnchanged

createInstance ==
  /\ AtStep(1)
  /\ \E failAt \in 0 .. 1 :
       /\ StepEffect(<< "vkInstance" >>, failAt)
       /\ StepDone(InitOrder[1], failAt = 0)
  /\ StepUnchanged

\* No compute-capable physical device makes the step fail; the physical
\* device is not an object the renderer owns.
selectPhysicalDevice ==
  /\ AtStep(2)
  /\ \E failAt \in 0 .. 1 :
       /\ StepEffect(<< "#vkPhysicalDevice" >>, failAt)
       /\ StepDone(InitOrder[2], failAt = 0)
  /\ StepUnchanged

createLogicalDevice ==
  /\ AtStep(3)
  /\ \E failAt \in 0 .. 1 :
       /\ StepEffect(<< "vkDevice" >>, failAt)
       /\ StepDone(InitOrder[3], failAt = 0)
  /\ StepUnchanged

\* fenceInfo.flags = VK_FENCE_CREATE_SIGNALED_BIT
FenceCreateUnsignaled ==
  FALSE

FenceCreateSignaled ==
  TRUE

\* Command pool, MAX_FRAMES_IN_FLIGHT command buffers, then one fence per
\* slot, created signaled.  failAt: 1 = pool, 2 = command buffers,
\* 2 + i = the fence of slot i - 1.
createCommandPool ==
  /\ AtStep(4)
  /\ \E failAt \in 0 .. (2 + MAX_FRAMES_IN_FLIGHT) :
       LET nFences == IF failAt = 0 THEN MAX_FRAMES_IN_FLIGHT
                      ELSE IF failAt <= 2 THEN 0 ELSE failAt - 3
           made == { s \in Slots : s < nFences }
       IN /\ StepEffect(<< "vkCommandPool", "#vkCommandBuffers" >>,
                        IF failAt > 2 THEN 0 ELSE failAt)
          /\ vkInFlightFences' = [s \in Slots |->
                IF s \in made THEN "set" ELSE vkInFlightFences[s]]
          /\ fenceObject' = [s \in Slots |->
                IF s \in made THEN "live" ELSE fenceObject[s]]
          /\ fenceSignaled' = [s \in Slots |->
                IF s \in made THEN FenceCreateSignaled ELSE fenceSignaled[s]]
          /\ StepDone(InitOrder[4], failAt = 0)
  /\ UNCHANGED << hasWindow, windowWidth, windowHeight, shutdowns,
                  destroyLog, bogusDestroy, currentFrame, subs, renderCalls, transferCalls,
                  outputLayout, barriers, accesses, imageReads, bufData,
                  updates, hostWrites, overflow,
                  lastUpload, renderLog, groupCount >>
  /\ SceneUnchanged

createBuffers ==
  /\ AtStep(5)
  /\ \E failAt \in 0 .. Len(createBuffersOrder) :
       /\ StepEffect(createBuffersOrder, failAt)
       /\ StepDone(InitOrder[5], failAt = 0)
  /\ StepUnchanged

createDescriptorSets ==
  /\ AtStep(6)
  /\ \E failAt \in 0 .. Len(createDescriptorSetsOrder) :
       /\ StepEffect(createDescriptorSetsOrder, failAt)
       /\ StepDone(InitOrder[6], failAt = 0)
  /\ StepUnchanged

\* compileWithGlslc throws when system() returns non-zero, readSPIRVFile
\* when the output cannot be opened.
CompileIgnoresExit(exit, spvReadable) ==
  ~spvReadable

CompileThrows(exit, spvReadable) ==
  exit # 0 \/ ~spvReadable

\* Kernel composition, the temporary file, the external compiler, then
\* the shader module, the pipeline layout and the pipeline.  Both
\* exceptions are caught and turned into return false.
createComputePipeline ==
  /\ AtStep(7)
  /\ \E readable \in BOOLEAN, exists \in BOOLEAN, tempOk \in BOOLEAN,
        spvReadable \in BOOLEAN, exit \in 0 .. 1,
        template \in SUBSET Placeholders,
        enum \in Enumerations(Listed(surfaceDir)),
        vkFail \in 0 .. 3 :
       LET r == loadAndInjectSurfaceShaders(readable, template, exists,
                  surfaceDir, enum, shaderPathToIndex)
           error == IF ~readable THEN "template unreadable"
                    ELSE IF r.threw THEN "module unreadable"
                    ELSE IF ~tempOk THEN "temporary file"
                    ELSE IF exit # 0 THEN "compiler exit"
                    ELSE IF ~spvReadable THEN "output unreadable"
                    ELSE IF vkFail # 0 THEN "vulkan"
                    ELSE "none"
           failAt == IF r.threw THEN 1
                     ELSE IF ~tempOk THEN 2
                     ELSE IF CompileThrows(exit, spvReadable) THEN 3
                     ELSE IF vkFail # 0 THEN 3 + vkFail
                     ELSE 0
       IN /\ exists \/ Listed(surfaceDir) = {}
          /\ StepEffect(createComputePipelineOrder, failAt)
          /\ StepDone(InitOrder[7], failAt = 0)
          /\ shaderPathToIndex' = r.map
          /\ pipelineError' = error
  /\ UNCHANGED << hasWindow, windowWidth, windowHeight, shutdowns,
                  vkInFlightFences, fenceObject, destroyLog, bogusDestroy,
                  surfaceDir, composed, packed,
                  svars, vvars >>
  /\ RenderUnchanged

createSwapChain ==
  /\ AtStep(8)
  /\ \E failAt \in 0 .. Len(createSwapChainOrder(hasWindow)) :
       /\ StepEffect(createSwapChainOrder(hasWindow), failAt)
       /\ StepDone(InitOrder[8], failAt = 0)
  /\ StepUnchanged

\* ------------------------------------------------------------ the device
\* A queue submission.  kind: "render" (the slot's command buffer, signals
\* the slot's fence), "blit" (blitToSwapchain) or "copy" (readback).
\* done: the device finished executing it.  signaled: its fence signal
\* operation happened (transfers are submitted with VK_NULL_HANDLE).
Submission(kind, slot) ==
  [ kind |-> kind, slot |-> slot, done |-> FALSE, signaled |-> FALSE ]

IsRender(q, i) ==
  q[i].kind = "render"

QueueIdle ==
  \A i \in 1 .. Len(subs) : subs[i].done

\* A render submission whose fence has not signaled yet is in flight.
InFlight(q) ==
  { i \in 1 .. Len(q) : IsRender(q, i) /\ ~q[i].signaled }

\* Old layouts the recorded barriers declare for the output image.
RenderBarrierOld == "UNDEFINED"

TransferBarrierOld == "GENERAL"

\* The first barrier of the blit and copy command buffers names
\* COMPUTE_SHADER as its source stage: the transfer starts only after all
\* compute work submitted before it.  The render barrier names TOP_OF_PIPE,
\* so a render submission depends on nothing submitted earlier.
NoDependency(i) ==
  TRUE

TransferDependency(i) ==
  \A j \in 1 .. (i - 1) : subs[j].done

CanExecute(i) ==
  IF IsRender(subs, i) THEN TRUE ELSE TransferDependency(i)

\* A fence signal operation waits for its submission and for everything
\* earlier in submission order.
SignalFences(q) ==
  [ i \in 1 .. Len(q) |->
      IF IsRender(q, i) /\ (\A j \in 1 .. i : q[j].done)
        THEN [ q[i] EXCEPT !.signaled = TRUE ]
        ELSE q[i] ]

\* The device executes submission i to completion.
GpuExecute ==
  \E i \in 1 .. Len(subs) :
    /\ ~subs[i].done
    /\ CanExecute(i)
    /\ LET q == SignalFences([ subs EXCEPT ![i].done = TRUE ])
           newly == { j \in 1 .. Len(q) : q[j].signaled /\ ~subs[j].signaled }
       IN /\ subs' = q
          /\ fenceSignaled' = [ s \in Slots |->
                fenceSignaled[s] \/ (\E j \in newly : q[j].slot = s) ]
          /\ IF IsRender(subs, i)
               THEN /\ barriers' = barriers \cup
                         { << RenderBarrierOld, outputLayout, "GENERAL" >> }
                    /\ accesses' = accesses \cup { << "dispatch", "GENERAL" >> }
                    /\ outputLayout' = "GENERAL"
                    /\ UNCHANGED imageReads
               ELSE /\ barriers' = barriers \cup
                         { << TransferBarrierOld, outputLayout,
                              "TRANSFER_SRC_OPTIMAL" >>,
                           << "TRANSFER_SRC_OPTIMAL", "TRANSFER_SRC_OPTIMAL",
                              "GENERAL" >> }
                    /\ accesses' = accesses \cup
                         { << subs[i].kind, "TRANSFER_SRC_OPTIMAL" >> }
                    /\ outputLayout' = "GENERAL"
                    /\ imageReads' = imageReads \cup
                         { [ by |-> subs[i].kind,
                             writerInFlight |-> InFlight(subs) # {} ] }
    /\ UNCHANGED << pc, shutdowns, currentFrame, renderCalls, transferCalls,
                    bufData, updates, hostWrites, overflow,
                  lastUpload, renderLog, groupCount >>
    /\ InitUnchanged /\ HandlesUnchanged /\ SceneUnchanged

\* ---------------------------------------------------------------- render
Ready ==
  /\ pc = "idle"
  /\ initResult = "true"
  /\ shutdowns = 0

\* VulkanRenderer::render is entered; the host reaches vkWaitForFences.
RenderCall ==
  /\ Ready
  /\ renderCalls < MaxRenders
  /\ pc' = "render"
  /\ renderCalls' = renderCalls + 1
  /\ UNCHANGED << shutdowns, currentFrame, fenceSignaled, subs, transferCalls,
                  outputLayout, barriers, accesses, imageReads, bufData,
                  updates, hostWrites, overflow,
                  lastUpload, renderLog, groupCount >>
  /\ InitUnchanged /\ HandlesUnchanged /\ SceneUnchanged

\* vkWaitForFences(vkInFlightFences[frame], UINT64_MAX) can return.
FenceWaitSkipped(frame) ==
  TRUE

vkWaitForFences(frame) ==
  fenceSignaled[frame]

\* The calls of render and of recordComputeCommands, which render calls
\* between vkResetFences and vkQueueSubmit, in the order of the code.
\* "advance" is the assignment to currentFrame.
RenderOrderAdvanceFirst ==
  << "vkWaitForFences", "vkResetFences", "vkResetCommandBuffer",
     "vkBeginCommandBuffer", "vkCmdPipelineBarrier", "vkCmdBindPipeline",
     "vkCmdBindDescriptorSets", "vkCmdPushConstants", "vkCmdDispatch",
     "vkEndCommandBuffer", "advance", "vkQueueSubmit" >>

RenderOrder ==
  << "vkWaitForFences", "vkResetFences", "vkResetCommandBuffer",
     "vkBeginCommandBuffer", "vkCmdPipelineBarrier", "vkCmdBindPipeline",
     "vkCmdBindDescriptorSets", "vkCmdPushConstants", "vkCmdDispatch",
     "vkEndCommandBuffer", "vkQueueSubmit", "advance" >>

\* currentFrame = (currentFrame + 1) % MAX_FRAMES_IN_FLIGHT
NextFrameStuck(frame) ==
  frame % MAX_FRAMES_IN_FLIGHT

NextFrame(frame) ==
  (frame + 1) % MAX_FRAMES_IN_FLIGHT

\* The value of currentFrame when call i of the order is made: every
\* "advance" before it has moved it on by one slot.
RECURSIVE Advanced(_, _)
Advanced(frame, times) ==
  IF times = 0 THEN frame ELSE Advanced(NextFrame(frame), times - 1)

FrameAt(order, i, frame) ==
  Advanced(frame, Cardinality({ j \in 1 .. (i - 1) : order[j] = "advance" }))

\* The positions of a call in the order, ascending.
CallsOf(order, op) ==
  SelectSeq([ i \in 1 .. Len(order) |-> i ], LAMBDA i : order[i] = op)

\* One run of render from currentFrame = frame: every call names
\* vkInFlightFences[currentFrame] or vkCommandBuffers[currentFrame] with
\* the currentFrame of that moment.  accept: vkQueueSubmit returns
\* VK_SUCCESS; otherwise nothing is queued and the fence stays as it is.
\* render does not look at the result.
RunRender(order, frame, fences, queue, accept) ==
  LET resets == { FrameAt(order, CallsOf(order, "vkResetFences")[k], frame) :
                    k \in 1 .. Len(CallsOf(order, "vkResetFences")) }
      submits == CallsOf(order, "vkQueueSubmit")
  IN [ log |-> [ i \in 1 .. Len(order) |->
                   << order[i], FrameAt(order, i, frame) >> ],
       fences |-> [ s \in Slots |-> IF s \in resets THEN FALSE ELSE fences[s] ],
       queue |-> IF accept
                   THEN queue \o [ k \in 1 .. Len(submits) |->
                          Submission("render",
                                     FrameAt(order, submits[k], frame)) ]
                   ELSE queue,
       frame |-> FrameAt(order, Len(order) + 1, frame) ]

\* groupCountX and groupCountY of recordComputeCommands: the number of
\* workgroups of 8 invocations along an axis of the given extent (int
\* arithmetic; the sum stays far below INT_MAX for every extent an image
\* can have).
GroupCountRoundedDown(extent) ==
  extent \div 8

GroupCount(extent) ==
  (extent + 7) \div 8

\* vkWaitForFences returns: reset the fence, reset and record the slot's
\* command buffer, submit it with the slot's fence, advance currentFrame.
RenderReturn(accepted) ==
  /\ vkWaitForFences(currentFrame)
  /\ LET r == RunRender(RenderOrder, currentFrame, fenceSignaled, subs,
                        accepted)
     IN /\ fenceSignaled' = r.fences
        /\ subs' = r.queue
        /\ currentFrame' = r.frame
        /\ renderLog' = r.log
  /\ groupCount' = << GroupCount(windowWidth), GroupCount(windowHeight) >>
  /\ pc' = "idle"
  /\ UNCHANGED << shutdowns, renderCalls, transferCalls, outputLayout,
                  barriers, accesses, imageReads, bufData, updates,
                  hostWrites, overflow, lastUpload >>
  /\ InitUnchanged /\ HandlesUnchanged /\ SceneUnchanged

\* render runs to its end on a queue that accepts the submission.
RenderProceed ==
  /\ pc = "render"
  /\ RenderReturn(TRUE)

\* render runs to its end although vkQueueSubmit returned an error
\* (VK_ERROR_OUT_OF_HOST_MEMORY, VK_ERROR_OUT_OF_DEVICE_MEMORY).
RenderSubmitRejected ==
  /\ pc = "render"
  /\ RenderReturn(FALSE)

\* ------------------------------------------------- present and readback
\* vkQueueWaitIdle, as called after the blit and the copy submission.
QueueWaitIdle ==
  QueueIdle

\* VulkanRenderer::present.  Without a swapchain it returns at once; a
\* failed vkAcquireNextImageKHR makes blitToSwapchain return false before
\* anything is recorded; otherwise the blit is submitted and the host
\* reaches vkQueueWaitIdle.
PresentCall ==
  /\ Ready
  /\ transferCalls < MaxTransfers
  /\ transferCalls' = transferCalls + 1
  /\ \E acquired \in BOOLEAN :
       IF vkHandle["vkSwapchain"] = "null" \/ ~acquired
         THEN UNCHANGED << pc, subs >>
         ELSE /\ subs' = Append(subs, Submission("blit", currentFrame))
              /\ pc' = "present"
  /\ UNCHANGED << shutdowns, currentFrame, fenceSignaled, renderCalls,
                  outputLayout, barriers, accesses, imageReads, bufData,
                  updates, hostWrites, overflow,
                  lastUpload, renderLog, groupCount >>
  /\ InitUnchanged /\ HandlesUnchanged /\ SceneUnchanged

\* vkQueueWaitIdle returns; vkQueuePresentKHR; the blit buffer is freed.
PresentReturn ==
  /\ pc = "present"
  /\ QueueWaitIdle
  /\ pc' = "idle"
  /\ UNCHANGED << shutdowns >>
  /\ InitUnchanged /\ HandlesUnchanged /\ RenderUnchanged /\ SceneUnchanged

\* The lazily created readback buffer: buffer, memory, bind.
readbackOrder ==
  << "vkReadbackBuffer", "vkReadbackBufferMemory", "#vkBindBufferMemory" >>

\* VulkanRenderer::readbackOutputImage up to vkQueueWaitIdle.  failAt:
\* 1..3 = a step of the creation block (run only while vkReadbackBuffer is
\* null), 4 = vkAllocateCommandBuffers; each returns false.
ReadbackCall ==
  /\ Ready
  /\ transferCalls < MaxTransfers
  /\ transferCalls' = transferCalls + 1
  /\ \E failAt \in 0 .. 4 :
       LET creating == vkHandle["vkReadbackBuffer"] = "null"
       IN /\ (failAt \in 1 .. 3) => creating
          /\ IF creating
               THEN StepEffect(readbackOrder, IF failAt = 4 THEN 0 ELSE failAt)
               ELSE UNCHANGED << vkHandle, object >>
          /\ IF failAt = 0
               THEN /\ subs' = Append(subs, Submission("copy", currentFrame))
                    /\ pc' = "readback"
               ELSE UNCHANGED << pc, subs >>
  /\ UNCHANGED << shutdowns, vkInFlightFences, fenceObject, destroyLog,
                  bogusDestroy, currentFrame, fenceSignaled, renderCalls,
                  outputLayout, barriers, accesses, imageReads, bufData,
                  updates, hostWrites, overflow,
                  lastUpload, renderLog, groupCount >>
  /\ InitUnchanged /\ SceneUnchanged

\* vkQueueWaitIdle returns; the host maps the readback buffer and copies
\* the pixels out.
ReadbackReturn ==
  /\ pc = "readback"
  /\ QueueWaitIdle
  /\ imageReads' = imageReads \cup
       { [ by |-> "host", writerInFlight |-> InFlight(subs) # {} ] }
  /\ pc' = "idle"
  /\ UNCHANGED << shutdowns, currentFrame, fenceSignaled, subs, renderCalls,
                  transferCalls, outputLayout, barriers, accesses, bufData,
                  updates, hostWrites, overflow,
                  lastUpload, renderLog, groupCount >>
  /\ InitUnchanged /\ HandlesUnchanged /\ SceneUnchanged

\* ----------------------------------------------------------- updateScene
\* Array lengths handed to updateScene: all arrays empty, exactly one
\* array non-empty, or all six non-empty, of n records each.
UploadInputs ==
  { [ b \in BufferNames |-> IF b \in S THEN n ELSE 0 ] :
      S \in ({ {}, BufferNames } \cup { { b } : b \in BufferNames }),
      n \in 1 .. MaxUpload }

\* What one memcpy leaves in a buffer: the first n records are replaced
\* by the records of this upload (stamped with its number).
CopyWholeBuffer(old, n, stamp) ==
  [ r \in 1 .. BufCap |-> stamp ]

CopyRecords(old, n, stamp) ==
  [ r \in 1 .. BufCap |-> IF r <= n THEN stamp ELSE old[r] ]

\* VulkanRenderer::updateScene: every non-empty array is mapped and copied
\* to the start of its buffer; nothing is waited for, no length is
\* compared with the buffer's size and the result of vkMapMemory is not
\* looked at.  failed: the buffers whose vkMapMemory fails, which leaves
\* the destination pointer of the memcpy unset.  A memcpy through an
\* unset pointer or past the end of the mapping is undefined: what the
\* process does from then on is not followed (pc = "undefined").
UpdateSceneStep ==
  /\ Ready
  /\ updates' = updates + 1
  /\ \E cnt \in UploadInputs :
      \E failed \in ({ {} } \cup { { b } : b \in { x \in BufferNames : cnt[x] > 0 } }) :
       /\ lastUpload' = << cnt >>
       /\ pc' = IF failed # {} \/ \E b \in BufferNames : cnt[b] > BufCap
                  THEN "undefined" ELSE pc
       /\ bufData' = [ b \in BufferNames |->
            IF cnt[b] = 0 \/ b \in failed THEN bufData[b]
            ELSE CopyRecords(bufData[b], cnt[b], updates + 1) ]
       /\ overflow' = overflow
            \cup { [ buffer |-> b, cause |-> "past capacity" ] :
                     b \in { x \in BufferNames \ failed : cnt[x] > BufCap } }
            \cup { [ buffer |-> b, cause |-> "unmapped pointer" ] :
                     b \in failed }
       /\ hostWrites' = hostWrites \cup
            { [ buffer |-> b, inFlight |-> InFlight(subs) # {} ] :
                b \in { x \in BufferNames : cnt[x] > 0 } }
  /\ UNCHANGED << shutdowns, currentFrame, fenceSignaled, subs,
                  renderCalls, transferCalls, outputLayout, barriers,
                  accesses, imageReads, renderLog, groupCount >>
  /\ InitUnchanged /\ HandlesUnchanged /\ SceneUnchanged

\* The caller uploads its scene.
updateScene ==
  /\ updates < MaxUpdates
  /\ UpdateSceneStep

\* The caller uploads one scene after another.
updateSceneAgain ==
  /\ updates < MaxReuploads
  /\ UpdateSceneStep

\* -------------------------------------------------------------- shutdown
\* Device children in the order shutdown destroys them (after the fences).
\* vkVoxelDataBuffer and vkVoxelDataBufferMemory are not in the code.
ShutdownOrder ==
  << "vkSwapchainImageViews", "vkSwapchain",
     "vkImageAvailableSemaphores", "vkRenderFinishedSemaphores",
     "vkOutputImageView", "vkOutputImage", "vkOutputImageMemory",
     "vkSphereBuffer", "vkSphereBufferMemory",
     "vkEllipsoidBuffer", "vkEllipsoidBufferMemory",
     "vkMaterialBuffer", "vkMaterialBufferMemory",
     "vkLightBuffer", "vkLightBufferMemory",
     "vkVolumeBuffer", "vkVolumeBufferMemory",
     "vkComputePipeline", "vkPipelineLayout",
     "vkDescriptorPool", "vkDescriptorSetLayout",
     "vkCommandPool",
     "vkReadbackBuffer", "vkReadbackBufferMemory" >>

\* vkDeviceWaitIdle, the first call of shutdown when there is a device.
DeviceWaitSkipped ==
  TRUE

DeviceWaitIdle ==
  QueueIdle

\* The destructor and the explicit call both enter shutdown.
ShutdownCall ==
  /\ pc = "idle"
  /\ shutdowns < MaxShutdowns
  /\ pc' = "shutdown"
  /\ UNCHANGED << shutdowns >>
  /\ InitUnchanged /\ HandlesUnchanged /\ RenderUnchanged /\ SceneUnchanged

\* The body of shutdown, after vkDeviceWaitIdle when there is a device.
ShutdownRun ==
  /\ pc = "shutdown"
  /\ LET dev == vkHandle["vkDevice"] # "null"
         inst == vkHandle["vkInstance"] # "null"
         IsSetFence(s) == vkInFlightFences[s] # "null"
         IsSet(h) == vkHandle[h] # "null"
         fences == IF dev THEN { s \in Slots : IsSetFence(s) } ELSE {}
         fenceLog == [ i \in 1 .. Cardinality(fences) |-> "vkInFlightFences" ]
         children == IF dev THEN SelectSeq(ShutdownOrder, IsSet) ELSE << >>
         tail == (IF dev THEN << "vkDevice" >> ELSE << >>)
                 \o (IF inst /\ IsSet("vkSurface")
                       THEN << "vkSurface" >> ELSE << >>)
                 \o (IF inst THEN << "vkInstance" >> ELSE << >>)
         log == children \o tail
         gone == { log[i] : i \in 1 .. Len(log) }
     IN /\ dev => DeviceWaitIdle
        /\ destroyLog' = destroyLog \o fenceLog \o log
        /\ vkHandle' = [ h \in HandleNames |->
                           IF h \in gone THEN "null" ELSE vkHandle[h] ]
        /\ object' = [ h \in HandleNames |->
                         IF h \in gone /\ object[h] = "live"
                           THEN "destroyed" ELSE object[h] ]
        /\ vkInFlightFences' = [ s \in Slots |->
                           IF s \in fences THEN "null"
                           ELSE vkInFlightFences[s] ]
        /\ fenceObject' = [ s \in Slots |->
                           IF s \in fences /\ fenceObject[s] = "live"
                             THEN "destroyed" ELSE fenceObject[s] ]
        /\ bogusDestroy' = bogusDestroy
             \cup { h \in gone : object[h] # "live" }
             \cup { "vkInFlightFences" : s \in
                      { x \in fences : fenceObject[x] # "live" } }
  /\ shutdowns' = shutdowns + 1
  /\ pc' = "idle"
  /\ InitUnchanged /\ RenderUnchanged /\ SceneUnchanged

\* ------------------------------------------------- material interning
\* A Material instance is named by its address 1..NumMaterials; 0 is
\* nullptr.  An entity (Sphere, Ellipsoid, VolumetricData) holds the
\* address of its material and the resolved index.
MaterialPtrs == 1 .. NumMaterials

ContainerNames == { "spheres", "ellipsoids", "volumes" }

\* Field values of each instance: instances 1 and 2 are equal by value.
MaterialValue(m) ==
  IF m = 2 THEN "value1" ELSE IF m = 1 THEN "value1" ELSE "value3"

\* Sphere(), Ellipsoid(), VolumetricData(): no material, index -1;
\* the four-argument constructors: the material's address, index -1.
Entity(m) ==
  [ material |-> m, materialIndex |-> -1 ]

EntityCount ==
  Len(spheres) + Len(ellipsoids) + Len(volumes)

Container(c) ==
  IF c = "spheres" THEN spheres
  ELSE IF c = "ellipsoids" THEN ellipsoids ELSE volumes

\* The index given to a material that is not in the map yet.
NewIndexOffByOne(out) ==
  Len(out) + 1

NewIndex(out) ==
  Len(out)

\* The key of materialIndexMap (std::unordered_map<const Material *, int>):
\* the address of the instance, not its field values.
MapKeyByValue(mat) ==
  CHOOSE m \in MaterialPtrs : MaterialValue(m) = MaterialValue(mat)

MapKey(mat) ==
  mat

\* One iteration of processContainer's loop on st = [objs, out, map],
\* where map is materialIndexMap (a function on the keys seen).
ProcessObject(st, k) ==
  LET mat == st.objs[k].material
  IN IF mat = 0
       THEN st
       ELSE IF MapKey(mat) \notin DOMAIN st.map
         THEN LET newIndex == NewIndex(st.out)
              IN [ objs |-> [ st.objs EXCEPT ![k].materialIndex = newIndex ],
                   out |-> Append(st.out, MaterialValue(mat)),
                   map |-> [ m \in (DOMAIN st.map) \cup { MapKey(mat) } |->
                               IF m = MapKey(mat) THEN newIndex
                               ELSE st.map[m] ] ]
         ELSE [ st EXCEPT !.objs[k].materialIndex = st.map[MapKey(mat)] ]

RECURSIVE ProcessFrom(_, _)
ProcessFrom(st, k) ==
  IF k > Len(st.objs) THEN st ELSE ProcessFrom(ProcessObject(st, k), k + 1)

\* processContainer(container) with the pass's current list and map.
processContainer(objs, out, map) ==
  ProcessFrom([ objs |-> objs, out |-> out, map |-> map ], 1)

\* The fold (processContainer(objectContainers), ...) over the containers
\* named by order; res maps every container name to its contents.
RECURSIVE ProcessAll(_, _, _)
ProcessAll(order, k, acc) ==
  IF k > Len(order) THEN acc
  ELSE LET st == processContainer(acc.res[order[k]], acc.out, acc.map)
       IN ProcessAll(order, k + 1,
            [ res |-> [ acc.res EXCEPT ![order[k]] = st.objs ],
              out |-> st.out, map |-> st.map ])

\* Orders in which a caller can hand containers to prepareForRender.
ContainerOrders ==
  { << "spheres", "ellipsoids", "volumes" >>,
    << "volumes", "spheres" >> }

\* An entity is constructed and pushed onto a container (the scene is
\* built before its first interning pass, as main does).
AddEntity ==
  /\ EntityCount < MaxEntities
  /\ prepareCalls = 0
  /\ \E c \in ContainerNames, m \in 0 .. NumMaterials :
       /\ spheres' = IF c = "spheres" THEN Append(spheres, Entity(m))
                     ELSE spheres
       /\ ellipsoids' = IF c = "ellipsoids" THEN Append(ellipsoids, Entity(m))
                        ELSE ellipsoids
       /\ volumes' = IF c = "volumes" THEN Append(volumes, Entity(m))
                     ELSE volumes
  /\ prepared' = << >>
  /\ UNCHANGED << outMaterials, setCalls, prepareCalls, rvars, cvars, vvars >>

\* The body of setMaterial: material_ = &material; materialIndex_ = -1.
SetMaterialKeepIndex(e, m) ==
  [ e EXCEPT !.material = m ]

SetMaterialBody(e, m) ==
  [ material |-> m, materialIndex |-> -1 ]

\* Sphere::setMaterial, Ellipsoid::setMaterial, VolumetricData::setMaterial.
setMaterial ==
  /\ setCalls < MaxSetMaterial
  /\ setCalls' = setCalls + 1
  /\ \E c \in ContainerNames, m \in MaterialPtrs :
       \E i \in 1 .. Len(Container(c)) :
         LET e == SetMaterialBody(Container(c)[i], m)
         IN /\ Container(c)[i].material # m
            /\ spheres' = IF c = "spheres"
                            THEN [ spheres EXCEPT ![i] = e ] ELSE spheres
            /\ ellipsoids' = IF c = "ellipsoids"
                            THEN [ ellipsoids EXCEPT ![i] = e ] ELSE ellipsoids
            /\ volumes' = IF c = "volumes"
                            THEN [ volumes EXCEPT ![i] = e ] ELSE volumes
  /\ prepared' = << >>
  /\ UNCHANGED << outMaterials, prepareCalls, rvars, cvars, vvars >>

\* outMaterials.clear() at the start of the pass.
KeptList(out) ==
  out

ClearedList(out) ==
  << >>

\* SceneManager::prepareForRender(outMaterials, containers...): the list
\* is cleared, then the containers are processed in the given order.
\* prepared remembers the order of the pass.
prepareForRender ==
  /\ prepareCalls < MaxPrepares
  /\ prepareCalls' = prepareCalls + 1
  /\ \E order \in ContainerOrders :
       LET r == ProcessAll(order, 1,
                  [ res |-> [ c \in ContainerNames |-> Container(c) ],
                    out |-> ClearedList(outMaterials), map |-> << >> ])
       IN /\ spheres' = r.res["spheres"]
          /\ ellipsoids' = r.res["ellipsoids"]
          /\ volumes' = r.res["volumes"]
          /\ outMaterials' = r.out
          /\ prepared' = order
  /\ UNCHANGED << setCalls, rvars, cvars, vvars >>

\* -------------------------------------------------------- voxel volume
\* Lengths and direction components are whole multiples of half of 1e-6,
\* so the tolerance 1e-6 of Volumetric::hit is 2; ray parameters are kept
\* as eight times their value, which is a whole number for every input of
\* the model.  Arithmetic is exact.
Axes == 1 .. 3

EPSILON == 2

Abs(v) ==
  IF v < 0 THEN -v ELSE v

\* _v0 = position (the origin here), _v1 = position + resolution *
\* thickness * scale.
v0 ==
  [ a \in Axes |-> 0 ]

v1 ==
  [ a \in Axes |-> v0[a] + resolution[a] * VoxelSize ]

\* The raw file: byte i holds i + 1, so a read names the index it used.
RawBytes(res) ==
  [ i \in 0 .. (res[1] * res[2] * res[3] - 1) |-> i + 1 ]

\* The guard of Value.
OutOfRange(x, y, z) ==
  \/ x < 0 \/ y < 0 \/ z < 0
  \/ x >= resolution[1] \/ y >= resolution[2] \/ z >= resolution[3]

\* z * _resolution[1] * _resolution[0] + y * _resolution[0] + x
VoxelIndexWithoutX(x, y, z) ==
  z * resolution[2] * resolution[1] + y * resolution[1]

VoxelIndex(x, y, z) ==
  z * resolution[2] * resolution[1] + y * resolution[1] + x

\* Volumetric::Value: the byte returned and the indices of _data read.
Value(x, y, z) ==
  IF OutOfRange(x, y, z)
    THEN [ value |-> 0, read |-> {} ]
    ELSE [ value |-> volumeData[VoxelIndex(x, y, z)],
           read |-> { VoxelIndex(x, y, z) } ]

\* Volumetric::GetIndexes: floor((v - position) / (thickness * scale)).
GetIndexes(point) ==
  [ a \in Axes |-> (point[a] - v0[a]) \div VoxelSize ]

\* Volumetric::getDensity: value / 255.0 as <<numerator, denominator>>.
getDensity(point) ==
  LET idx == GetIndexes(point)
      r == Value(idx[1], idx[2], idx[3])
  IN [ density |-> << r.value, 255 >>, value |-> r.value, read |-> r.read,
       idx |-> idx ]

\* Coordinates of ray origins and query points on one axis: outside the
\* slab by Reach, outside by less than EPSILON, inside.
Coordinates(a) ==
  { v0[a] - Reach, v0[a] - 1, v0[a] + 1, v1[a] + 1, v1[a] + Reach }

\* Direction components: 0, -1 and 2 are within 1e-6 of zero.
Directions == { -4, -1, 0, 2, 8 }

\* <<tMin, tMax>> handed to hit, as eight times their value.
Ranges == { << 0, 800 >>, << 8, 16 >> }

\* (bound - origin) * (1 / direction), as eight times its value.
TimeTo(delta, d) ==
  IF d > 0 THEN (8 * delta) \div d ELSE (-(8 * delta)) \div (-d)

\* One "Check axis" block of hit on st = [done, t0, t1]: done is TRUE
\* once hit has returned false.  t1 <= t0 + EPSILON is t1 <= t0 on
\* eighths.
CheckAxis(st, a, origin, direction) ==
  IF st.done THEN st
  ELSE IF Abs(direction[a]) > EPSILON
    THEN LET tA == TimeTo(v0[a] - origin[a], direction[a])
             tB == TimeTo(v1[a] - origin[a], direction[a])
             tNear == IF direction[a] < 0 THEN tB ELSE tA
             tFar == IF direction[a] < 0 THEN tA ELSE tB
             t0 == IF tNear > st.t0 THEN tNear ELSE st.t0
             t1 == IF tFar < st.t1 THEN tFar ELSE st.t1
         IN [ done |-> t1 <= t0, t0 |-> t0, t1 |-> t1 ]
    ELSE IF \/ origin[a] < v0[a] - EPSILON
            \/ origin[a] > v1[a] + EPSILON
      THEN [ st EXCEPT !.done = TRUE ]
      ELSE [ st EXCEPT !.done = st.t1 <= st.t0 ]

\* Volumetric::hit: TRUE when it returns true.
hit(origin, direction, tMin, tMax) ==
  LET sx == CheckAxis([ done |-> FALSE, t0 |-> tMin, t1 |-> tMax ], 1,
                      origin, direction)
      sy == CheckAxis(sx, 2, origin, direction)
      sz == CheckAxis(sy, 3, origin, direction)
  IN /\ ~sz.done
     /\ ~(sz.t0 < tMin \/ sz.t0 > tMax)

NoVolumeCall ==
  /\ lookup = << >>
  /\ hitResult = << >>
  /\ exitResult = << >>

\* Value is called with some voxel coordinate.
ValueCall ==
  /\ NoVolumeCall
  /\ \E x \in -1 .. MaxRes, y \in -1 .. MaxRes, z \in -1 .. MaxRes :
       LET r == Value(x, y, z)
       IN lookup' = << [ call |-> "Value", idx |-> << x, y, z >>,
                         value |-> r.value, read |-> r.read,
                         density |-> << >> ] >>
  /\ UNCHANGED << resolution, volumeData, hitResult, exitResult, rvars,
                  svars, cvars >>

\* getDensity is called with some point.
getDensityCall ==
  /\ NoVolumeCall
  /\ \E px \in Coordinates(1), py \in Coordinates(2), pz \in Coordinates(3) :
       LET r == getDensity(<< px, py, pz >>)
       IN lookup' = << [ call |-> "getDensity", idx |-> r.idx,
                         value |-> r.value, read |-> r.read,
                         density |-> r.density ] >>
  /\ UNCHANGED << resolution, volumeData, hitResult, exitResult, rvars,
                  svars, cvars >>

\* hit is called with some ray.
hitCall ==
  /\ NoVolumeCall
  /\ \E ox \in Coordinates(1), oy \in Coordinates(2), oz \in Coordinates(3),
        direction \in [ Axes -> Directions ], range \in Ranges :
       hitResult' = << [ origin |-> << ox, oy, oz >>, direction |-> direction,
                         tMin |-> range[1], tMax |-> range[2],
                         hit |-> hit(<< ox, oy, oz >>, direction,
                                     range[1], range[2]) ] >>
  /\ UNCHANGED << resolution, volumeData, lookup, exitResult, rvars, svars,
                  cvars >>

\* std::abs(ray.direction.x) > 1e-6 in getExitPoint.
NonParallelAtAll(d) ==
  Abs(d) > 0

NonParallel(d) ==
  Abs(d) > EPSILON

\* tFar of one axis after the swap, as eight times its value.
FarSlab(a, entryPoint, direction) ==
  IF direction[a] < 0
    THEN TimeTo(v0[a] - entryPoint[a], direction[a])
    ELSE TimeTo(v1[a] - entryPoint[a], direction[a])

\* One "Check axis" block of getExitPoint on t1, which is << >> while it
\* still has its initial value 1e10 (larger than every tFar of the model)
\* and <<eight times its value>> afterwards.  There is no else branch.
ExitAxis(t1, a, entryPoint, direction) ==
  IF NonParallel(direction[a])
    THEN LET tFar == FarSlab(a, entryPoint, direction)
         IN IF t1 = << >> \/ tFar < t1[1] THEN << tFar >> ELSE t1
    ELSE t1

\* Volumetric::getExitPoint: t1 and entryPoint + ray.direction * t1, the
\* point as eight times its coordinates (<< >> when t1 is still 1e10).
getExitPoint(direction, entryPoint) ==
  LET tx == ExitAxis(<< >>, 1, entryPoint, direction)
      ty == ExitAxis(tx, 2, entryPoint, direction)
      tz == ExitAxis(ty, 3, entryPoint, direction)
  IN [ t1 |-> tz,
       point |-> IF tz = << >> THEN << >>
                 ELSE << [ a \in Axes |->
                             8 * entryPoint[a] + direction[a] * tz[1] ] >> ]

\* getExitPoint is called with some ray direction and entry point.
getExitPointCall ==
  /\ NoVolumeCall
  /\ \E ex \in Coordinates(1), ey \in Coordinates(2), ez \in Coordinates(3),
        direction \in [ Axes -> Directions ] :
       LET r == getExitPoint(direction, << ex, ey, ez >>)
       IN exitResult' = << [ entryPoint |-> << ex, ey, ez >>,
                             direction |-> direction,
                             t1 |-> r.t1, point |-> r.point ] >>
  /\ UNCHANGED << resolution, volumeData, lookup, hitResult, rvars, svars,
                  cvars >>

\* ------------------------------------------------------ specifications
InitRenderer ==
  /\ pc = "idle"
  /\ hasWindow = FALSE
  /\ windowWidth = WINDOW_WIDTH
  /\ windowHeight = WINDOW_HEIGHT
  /\ initStep = 0
  /\ initLog = << >>
  /\ initResult = "none"
  /\ shutdowns = 0
  /\ vkHandle = [ h \in HandleNames |-> "null" ]
  /\ object = [ h \in HandleNames |-> "none" ]
  /\ fenceObject = [ s \in Slots |-> "none" ]
  /\ destroyLog = << >>
  /\ bogusDestroy = {}
  /\ currentFrame = 0
  /\ fenceSignaled = [ s \in Slots |-> FALSE ]
  /\ subs = << >>
  /\ renderCalls = 0
  /\ transferCalls = 0
  /\ outputLayout = "UNDEFINED"
  /\ barriers = {}
  /\ accesses = {}
  /\ imageReads = {}
  /\ bufData = [ b \in BufferNames |-> [ r \in 1 .. BufCap |-> 0 ] ]
  /\ updates = 0
  /\ hostWrites = {}
  /\ overflow = {}
  /\ lastUpload = << >>
  /\ renderLog = << >>
  /\ groupCount = << >>

\* The surface shader directory of a renderer run: one module, or one
\* file that cannot be read.
RendererDirectories ==
  { d \in Directories :
      /\ \A p \in Paths : p > 1 => d[p].kind = "absent"
      /\ d[1] \in { [ kind |-> "unreadable", code |-> << >> ],
                    [ kind |-> "glsl", code |-> << "M", "f", "(" >> ] } }

\* Contents a caller's map can have before loadAndInjectSurfaceShaders:
\* empty, or the entry of an earlier composition.
PriorMaps ==
  { << >>, [ p \in { NumPaths + 1 } |-> 1 ] }

InitComposer ==
  /\ composed = << >>
  /\ pipelineError = "none"
  /\ packed = << >>

\* No call on the volume yet.
InitVolume ==
  /\ volumeData = RawBytes(resolution)
  /\ lookup = << >>
  /\ hitResult = << >>
  /\ exitResult = << >>

InitScene ==
  /\ spheres = << >>
  /\ ellipsoids = << >>
  /\ volumes = << >>
  /\ outMaterials = << >>
  /\ prepared = << >>
  /\ setCalls = 0
  /\ prepareCalls = 0

\* VkFence vkInFlightFences[MAX_FRAMES_IN_FLIGHT] has no initializer and
\* the constructor is defaulted: the members start indeterminate.
Init ==
  /\ InitRenderer
  /\ InitScene
  /\ InitComposer
  /\ vkInFlightFences \in [ Slots -> { "null", "garbage" } ]
  /\ surfaceDir \in RendererDirectories
  /\ shaderPathToIndex = << >>
  /\ resolution = [ a \in Axes |-> 1 ]
  /\ InitVolume

Next ==
  \/ InitializeCall
  \/ createInstance
  \/ selectPhysicalDevice
  \/ createLogicalDevice
  \/ createCommandPool
  \/ createBuffers
  \/ createDescriptorSets
  \/ createComputePipeline
  \/ createSwapChain
  \/ RenderCall
  \/ RenderProceed
  \/ GpuExecute
  \/ PresentCall
  \/ PresentReturn
  \/ ReadbackCall
  \/ ReadbackReturn
  \/ updateScene
  \/ ShutdownCall
  \/ ShutdownRun

Spec ==
  Init /\ [][Next]_vars

\* The scene layer on its own.
NextScene ==
  \/ AddEntity
  \/ setMaterial
  \/ prepareForRender

InitSceneOnly ==
  /\ InitRenderer
  /\ InitScene
  /\ InitComposer
  /\ vkInFlightFences = [ s \in Slots |-> "null" ]
  /\ surfaceDir = [ p \in Paths |-> [ kind |-> "absent", code |-> << >> ] ]
  /\ shaderPathToIndex = << >>
  /\ resolution = [ a \in Axes |-> 1 ]
  /\ InitVolume

SpecScene ==
  InitSceneOnly /\ [][NextScene]_vars

\* The kernel composer and the material packer on their own: the
\* directory and the map handed in are inputs.
NextShader ==
  \/ LoadAndInjectCall
  \/ MaterialToGPU

InitShader ==
  /\ InitRenderer
  /\ InitScene
  /\ InitComposer
  /\ vkInFlightFences = [ s \in Slots |-> "null" ]
  /\ surfaceDir \in Directories
  /\ shaderPathToIndex \in PriorMaps
  /\ resolution = [ a \in Axes |-> 1 ]
  /\ InitVolume

SpecShader ==
  InitShader /\ [][NextShader]_vars

\* The voxel volume on its own: the resolution is an input.
NextVolume ==
  \/ ValueCall
  \/ getDensityCall
  \/ hitCall
  \/ getExitPointCall

InitVolumeOnly ==
  /\ InitRenderer
  /\ InitScene
  /\ InitComposer
  /\ vkInFlightFences = [ s \in Slots |-> "null" ]
  /\ surfaceDir = [ p \in Paths |-> [ kind |-> "absent", code |-> << >> ] ]
  /\ shaderPathToIndex = << >>
  /\ resolution \in [ Axes -> 1 .. MaxRes ]
  /\ InitVolume

SpecVolume ==
  InitVolumeOnly /\ [][NextVolume]_vars

\* Scene uploads on their own, on a renderer whose headless initialize
\* has returned true and which has not rendered yet.
HeadlessHandles ==
  { "vkInstance", "vkDevice", "vkCommandPool" }
    \cup Created(createBuffersOrder, Len(createBuffersOrder))
    \cup Created(createDescriptorSetsOrder, Len(createDescriptorSetsOrder))
    \cup Created(createComputePipelineOrder, Len(createComputePipelineOrder))
    \cup Created(createSwapChainOrder(FALSE), Len(createSwapChainOrder(FALSE)))

Initialized ==
  /\ pc = "idle"
  /\ hasWindow = FALSE
  /\ initStep = Len(InitOrder)
  /\ initLog = [ i \in 1 .. Len(InitOrder) |-> << InitOrder[i], TRUE >> ]
  /\ initResult = "true"
  /\ shutdowns = 0
  /\ vkHandle = [ h \in HandleNames |->
                    IF h \in HeadlessHandles THEN "set" ELSE "null" ]
  /\ object = [ h \in HandleNames |->
                  IF h \in HeadlessHandles THEN "live" ELSE "none" ]
  /\ vkInFlightFences = [ s \in Slots |-> "set" ]
  /\ fenceObject = [ s \in Slots |-> "live" ]
  /\ fenceSignaled = [ s \in Slots |-> FenceCreateSignaled ]
  /\ destroyLog = << >>
  /\ bogusDestroy = {}
  /\ currentFrame = 0
  /\ subs = << >>
  /\ renderCalls = 0
  /\ transferCalls = 0
  /\ outputLayout = "UNDEFINED"
  /\ barriers = {}
  /\ accesses = {}
  /\ imageReads = {}
  /\ bufData = [ b \in BufferNames |-> [ r \in 1 .. BufCap |-> 0 ] ]
  /\ updates = 0
  /\ hostWrites = {}
  /\ overflow = {}
  /\ lastUpload = << >>
  /\ renderLog = << >>
  /\ groupCount = << >>
  /\ surfaceDir = [ p \in Paths |->
                      IF p = 1 THEN [ kind |-> "glsl", code |-> << Marker, "f", Paren >> ]
                      ELSE [ kind |-> "absent", code |-> << >> ] ]
  /\ shaderPathToIndex = [ p \in { 1 } |-> 1 ]
  /\ pipelineError = "none"
  /\ composed = << >>
  /\ packed = << >>

InitUpload ==
  /\ Initialized
  /\ windowWidth = WINDOW_WIDTH
  /\ windowHeight = WINDOW_HEIGHT
  /\ InitScene
  /\ resolution = [ a \in Axes |-> 1 ]
  /\ InitVolume

NextUpload ==
  \/ updateSceneAgain

SpecUpload ==
  InitUpload /\ [][NextUpload]_vars

\* Rendering on its own, on a renderer initialized headless with an
\* output image of any small size.
InitDispatch ==
  /\ Initialized
  /\ windowWidth \in 1 .. MaxExtent
  /\ windowHeight \in 1 .. MaxExtent
  /\ InitScene
  /\ resolution = [ a \in Axes |-> 1 ]
  /\ InitVolume

NextDispatch ==
  \/ RenderCall
  \/ RenderProceed
  \/ GpuExecute

SpecDispatch ==
  InitDispatch /\ [][NextDispatch]_vars

\* Rendering on a device whose queue can refuse a submission.  The host
\* thread keeps running, so a render call whose wait can return does
\* return, and the device completes every submission it accepted.
NextRender ==
  \/ RenderCall
  \/ RenderProceed
  \/ RenderSubmitRejected
  \/ GpuExecute
  \/ updateScene

SpecRender ==
  /\ InitUpload
  /\ [][NextRender]_vars
  /\ WF_vars(RenderProceed \/ RenderSubmitRejected)
  /\ WF_vars(GpuExecute)

\* ================================================================ claims
RenderSubs(q) ==
  { i \in 1 .. Len(q) : IsRender(q, i) }

\* C1: with the slots used round-robin, the step of a render call that
\* resets and records a slot's command buffer is taken only when every
\* earlier submission of that slot has had its fence signaled, and the
\* n-th render call submits on slot n mod MAX_FRAMES_IN_FLIGHT.
C1_SlotReuseWaitsForFence ==
  [][ (pc = "render" /\ pc' = "idle") =>
        /\ \A i \in RenderSubs(subs) :
             subs[i].slot = currentFrame => subs[i].signaled
        /\ subs'[Len(subs')].kind = "render"
        /\ subs'[Len(subs')].slot = (renderCalls - 1) % MAX_FRAMES_IN_FLIGHT
    ]_vars

\* A slot has been submitted twice: call k and call k + P.
C1_Witness ==
  \E i, j \in RenderSubs(subs) : i < j /\ subs[i].slot = subs[j].slot

\* C2: the host never writes a storage buffer while a render submission
\* whose fence has not signaled exists.
C2_NoHostWriteInFlight ==
  \A w \in hostWrites : ~w.inFlight

\* C3: the output image is read by the blit, by the image-to-buffer copy
\* and by the host copying out of the readback buffer only when no render
\* submission is still waiting for its fence.
C3_NoReadBeforeFence ==
  \A r \in imageReads : ~r.writerInFlight

\* The image was read after at least one render was submitted.
C3_Witness ==
  /\ imageReads # {}
  /\ RenderSubs(subs) # {}

\* The host is blocked inside render.
Blocked ==
  /\ pc = "render"
  /\ ~fenceSignaled[currentFrame]

LayoutMatches(declared, actual) ==
  declared = actual \/ declared = "UNDEFINED"

\* C5: every executed barrier on the output image declares the layout the
\* image is in, the dispatch writes it in GENERAL, the blit and the copy
\* read it in TRANSFER_SRC_OPTIMAL, and it is back in GENERAL afterwards.
C5_BarriersBracketLayout ==
  /\ \A b \in barriers : LayoutMatches(b[1], b[2])
  /\ \A a \in accesses :
       a[2] = (IF a[1] = "dispatch" THEN "GENERAL" ELSE "TRANSFER_SRC_OPTIMAL")
  /\ accesses # {} => outputLayout = "GENERAL"

\* C6: shutdown never destroys a handle that was never assigned or that
\* was destroyed before, on any instance, initialized or not.
C6_ShutdownDestroysOnlyCreated ==
  bogusDestroy = {}

Position(log, name) ==
  CHOOSE i \in 1 .. Len(log) : log[i] = name

\* C7: after shutdown of a fully initialized instance no device object is
\* left alive, the device is destroyed after its children and the instance
\* last.
C7_ShutdownDestroysEverything ==
  (initResult = "true" /\ shutdowns >= 1) =>
     /\ \A h \in HandleNames : object[h] # "live"
     /\ \A s \in Slots : fenceObject[s] # "live"
     /\ \A i \in 1 .. Len(destroyLog) :
          destroyLog[i] \notin { "vkDevice", "vkSurface", "vkInstance" }
            => i < Position(destroyLog, "vkDevice")
     /\ Position(destroyLog, "vkDevice") < Position(destroyLog, "vkInstance")
     /\ Position(destroyLog, "vkInstance") = Len(destroyLog)

\* C8: initialize runs its steps in the fixed order, returns false at the
\* first failing step without running a later one, and returns true only
\* when all eight steps succeeded.
C8_InitializeOrder ==
  /\ Len(initLog) <= Len(InitOrder)
  /\ \A i \in 1 .. Len(initLog) : initLog[i][1] = InitOrder[i]
  /\ \A i \in 1 .. (Len(initLog) - 1) : initLog[i][2]
  /\ initResult = "false" <=>
       (Len(initLog) > 0 /\ ~initLog[Len(initLog)][2])
  /\ initResult = "true" <=>
       (Len(initLog) = Len(InitOrder) /\ \A i \in 1 .. Len(initLog) :
                                            initLog[i][2])
  /\ initResult # "none" => pc # "initialize"

\* initialize returned false at its fifth step.
C8_Witness ==
  /\ initResult = "false"
  /\ Len(initLog) = 5

\* The entities of the containers of the last pass, in processing order.
RECURSIVE Flatten(_, _)
Flatten(order, k) ==
  IF k > Len(order) THEN << >>
  ELSE Container(order[k]) \o Flatten(order, k + 1)

Processed ==
  Flatten(prepared, 1)

MaterialsOf(L) ==
  [ i \in 1 .. Len(L) |-> L[i].material ]

IndicesOf(L) ==
  [ i \in 1 .. Len(L) |-> L[i].materialIndex ]

\* Number of distinct materials referenced before the first entity that
\* references material m.
FirstSeenRank(L, m) ==
  LET first == CHOOSE i \in 1 .. Len(L) :
                 /\ L[i].material = m
                 /\ \A j \in 1 .. (i - 1) : L[j].material # m
  IN Cardinality({ L[j].material : j \in 1 .. (first - 1) } \ { 0 })

\* C9: after a pass, every entity that references a material carries the
\* number of distinct materials seen before that material, the output list
\* holds the materials in first-seen order, entities sharing an instance
\* share the index, and A,B,A,C resolves to 0,1,0,2 with list [A,B,C].
C9_FirstSeenOrder ==
  prepared # << >> =>
    LET L == Processed
        refs == { i \in 1 .. Len(L) : L[i].material # 0 }
    IN /\ \A i \in refs :
            /\ L[i].materialIndex = FirstSeenRank(L, L[i].material)
            /\ outMaterials[L[i].materialIndex + 1]
                 = MaterialValue(L[i].material)
       /\ \A i, j \in refs :
            L[i].material = L[j].material
              => L[i].materialIndex = L[j].materialIndex
       /\ Len(outMaterials) = Cardinality({ L[i].material : i \in refs })
       /\ MaterialsOf(L) = << 1, 2, 1, 3 >> =>
            /\ IndicesOf(L) = << 0, 1, 0, 2 >>
            /\ outMaterials = << MaterialValue(1), MaterialValue(2),
                                 MaterialValue(3) >>

\* A pass over entities referencing A,B,A,C split over two containers.
C9_Witness ==
  /\ prepared # << >>
  /\ MaterialsOf(Processed) = << 1, 2, 1, 3 >>
  /\ Len(spheres) = 2

\* C10: after a pass every entity of the processed containers has an index
\* inside the output list, and the entry there is its material.
C10_EveryEntityResolved ==
  prepared # << >> =>
    \A i \in 1 .. Len(Processed) :
      LET e == Processed[i]
      IN /\ 0 <= e.materialIndex
         /\ e.materialIndex < Len(outMaterials)
         /\ outMaterials[e.materialIndex + 1] = MaterialValue(e.material)

\* The containers after the step.
ContainerNext(c) ==
  IF c = "spheres" THEN spheres'
  ELSE IF c = "ellipsoids" THEN ellipsoids' ELSE volumes'

InOrder(order, c) ==
  \E k \in 1 .. Len(order) : order[k] = c

\* C11: an entity's resolved index is -1 until an interning pass processes
\* it: a newly constructed entity has index -1, an entity whose material
\* was replaced by setMaterial has index -1 again, and an index leaves -1
\* only in a prepareForRender pass over the entity's container.
C11_IndexUnresolvedUntilPass ==
  [][ \A c \in ContainerNames :
        \A i \in 1 .. Len(ContainerNext(c)) :
          LET after == ContainerNext(c)[i]
          IN /\ i > Len(Container(c)) => after.materialIndex = -1
             /\ i <= Len(Container(c)) =>
                  LET before == Container(c)[i]
                  IN /\ after.material # before.material
                          => after.materialIndex = -1
                     /\ after.materialIndex # before.materialIndex
                          /\ after.material = before.material
                          => /\ prepareCalls' = prepareCalls + 1
                             /\ InOrder(prepared', c) ]_vars

\* The only entity of the scene was interned by a pass and then given
\* another material: its index is -1 again.
C11_Witness ==
  /\ EntityCount = 1
  /\ Len(spheres) = 1
  /\ prepareCalls = 1
  /\ outMaterials # << >>
  /\ setCalls = 1
  /\ prepared = << >>
  /\ spheres[1].materialIndex = -1

\* C12: deduplication is by instance identity: after a pass, two entities
\* that reference distinct Material instances carry different indices and
\* the output list holds one entry per instance, also when the two
\* instances have identical field values.
C12_IdentityNotValue ==
  prepared # << >> =>
    LET L == Processed
        refs == { i \in 1 .. Len(L) : L[i].material # 0 }
    IN /\ \A i, j \in refs :
            L[i].material # L[j].material
              => /\ L[i].materialIndex # L[j].materialIndex
                 /\ L[i].materialIndex \in 0 .. (Len(outMaterials) - 1)
                 /\ L[j].materialIndex \in 0 .. (Len(outMaterials) - 1)
       /\ Len(outMaterials) = Cardinality({ L[i].material : i \in refs })

\* A pass over two entities whose materials are distinct instances with
\* equal field values: two equal entries in the output list.
C12_Witness ==
  /\ prepared # << >>
  /\ \E i, j \in 1 .. Len(Processed) :
       /\ Processed[i].material = 1
       /\ Processed[j].material = 2
       /\ MaterialValue(1) = MaterialValue(2)
       /\ Processed[i].materialIndex # Processed[j].materialIndex
  /\ Len(outMaterials) = 2
  /\ outMaterials[1] = outMaterials[2]

\* C13: a pass that follows a pass over the same containers, with no
\* entity added and no material replaced in between, leaves every index
\* and the output list as they were.
C13_PrepareIdempotent ==
  [][ ( /\ prepared # << >>
        /\ prepareCalls' = prepareCalls + 1
        /\ prepared' = prepared )
      => /\ spheres' = spheres
         /\ ellipsoids' = ellipsoids
         /\ volumes' = volumes
         /\ outMaterials' = outMaterials ]_vars

\* Two passes over all three containers of an unchanged scene that
\* references at least two materials.
C13_Witness ==
  /\ prepareCalls = 2
  /\ setCalls = 0
  /\ prepared = << "spheres", "ellipsoids", "volumes" >>
  /\ Len(outMaterials) >= 2
  /\ Len(ellipsoids) >= 1

\* A module text that has the marker and a "(" after it.
ValidModule(code) ==
  \E i \in 1 .. Len(code) :
    /\ code[i] = Marker
    /\ \E j \in (i + 1) .. Len(code) : code[j] = Paren

\* The *.glsl files of the directory.
Modules ==
  { p \in Paths : surfaceDir[p].kind = "glsl" }

Composed ==
  composed # << >> /\ ~composed[1].threw

\* C14: composing over a directory of N distinct valid modules leaves a
\* map with exactly those N paths as keys and exactly 1..N as values, no
\* value twice, none 0, and nothing of the map's previous contents.
C14_IndicesOneToN ==
  ( /\ Composed
    /\ \A p \in Modules : ValidModule(surfaceDir[p].code) )
  => LET N == Cardinality(Modules)
     IN /\ DOMAIN shaderPathToIndex = Modules
        /\ { shaderPathToIndex[p] : p \in Modules } = 1 .. N
        /\ \A p, q \in Modules :
             shaderPathToIndex[p] = shaderPathToIndex[q] => p = q
        /\ \A p \in Modules : shaderPathToIndex[p] # 0

\* Three valid modules composed into a map that held another entry.
C14_Witness ==
  /\ Composed
  /\ Cardinality(Modules) = 3
  /\ \A p \in Modules : ValidModule(surfaceDir[p].code)
  /\ composed[2] # << >>
  /\ Cardinality(DOMAIN shaderPathToIndex) = 3

\* The text between the first marker and the first "(" after it.
NameOf(code) ==
  LET i == CHOOSE i \in 1 .. Len(code) :
             /\ code[i] = Marker
             /\ \A k \in 1 .. (i - 1) : code[k] # Marker
      j == CHOOSE j \in (i + 1) .. Len(code) :
             /\ code[j] = Paren
             /\ \A k \in (i + 1) .. (j - 1) : code[k] # Paren
  IN [ n \in 1 .. (j - i - 1) |-> code[i + n] ]

\* One ladder for the modules of the map: as many branches as modules,
\* one if followed by else-ifs, no index tested twice, and the branch of
\* a valid module's index calls the name found in that module's text.
LadderFor(ladder) ==
  /\ Len(ladder) = Cardinality(DOMAIN shaderPathToIndex)
  /\ \A k \in 1 .. Len(ladder) : ladder[k].else = (k > 1)
  /\ \A runtime \in 0 .. (Len(ladder) + 1) :
       Cardinality({ k \in 1 .. Len(ladder) : ladder[k].index = runtime }) <= 1
  /\ \A p \in DOMAIN shaderPathToIndex :
       \E k \in 1 .. Len(ladder) :
         /\ ladder[k].index = shaderPathToIndex[p]
         /\ ValidModule(surfaceDir[p].code)
              => ladder[k].call = NameOf(surfaceDir[p].code)

\* C15: each of the two dispatch ladders has exactly N branches in one
\* if / else-if chain, every branch tests a distinct module index, and the
\* branch for index i calls the function named in the text of module i.
C15_LaddersMatchModules ==
  Composed =>
    /\ LadderFor(composed[1].dispatchCode)
    /\ LadderFor(composed[1].dispatchCodeSphere)

\* Three modules, one of them with a helper call and two marked
\* functions in its text.
C15_Witness ==
  /\ Composed
  /\ Len(composed[1].dispatchCode) = 3
  /\ Len(composed[1].dispatchCodeSphere) = 3
  /\ \E p \in Modules : Len(surfaceDir[p].code) > 3
  /\ \E k \in 1 .. 3 : composed[1].dispatchCode[k].call = << "g" >>

HasMarker(code) ==
  \E i \in 1 .. Len(code) : code[i] = Marker

\* C16: a module without the marker gets no index and no branch in
\* either ladder, and the modules that have it are still indexed.
C16_MarkerlessModuleSkipped ==
  Composed =>
    LET marked == { p \in Modules : HasMarker(surfaceDir[p].code) }
    IN /\ \A p \in Modules \ marked : p \notin DOMAIN shaderPathToIndex
       /\ Len(composed[1].dispatchCode) = Cardinality(marked)
       /\ Len(composed[1].dispatchCodeSphere) = Cardinality(marked)
       /\ \A p \in marked : p \in DOMAIN shaderPathToIndex

\* Failures of kernel composition and of the external compiler.
ComposeOrCompileErrors ==
  { "template unreadable", "module unreadable", "compiler exit",
    "output unreadable" }

\* C17: when kernel composition or the external compiler fails,
\* createComputePipeline returns false, initialize returns false, no
\* pipeline exists and createSwapChain never runs.
C17_CompileFailureIsFatal ==
  pipelineError \in ComposeOrCompileErrors =>
    /\ Len(initLog) = 7
    /\ initLog[7] = << "createComputePipeline", FALSE >>
    /\ initResult = "false"
    /\ vkHandle["vkComputePipeline"] = "null"
    /\ object["vkComputePipeline"] = "none"
    /\ \A h \in Created(createSwapChainOrder(TRUE),
                          Len(createSwapChainOrder(TRUE))) :
         object[h] = "none"

\* The external compiler exited with a non-zero status and initialize
\* returned false.
C17_Witness ==
  /\ pipelineError = "compiler exit"
  /\ initResult = "false"
  /\ pc = "idle"

\* C18: the index toGPU packs is the map's value for the material's
\* shader path when the path is a key, 0 when the path is empty or not a
\* key, and every non-zero packed index has a branch in both ladders.
C18_PackedIndexFromComposerMap ==
  ( Composed /\ packed # << >> ) =>
    LET shaderPath == packed[1]
        shaderIndex == packed[2]
        known == shaderPath # 0 /\ shaderPath \in DOMAIN shaderPathToIndex
    IN /\ known => shaderIndex = shaderPathToIndex[shaderPath]
       /\ ~known => shaderIndex = 0
       /\ shaderIndex # 0 =>
            /\ \E k \in 1 .. Len(composed[1].dispatchCode) :
                 composed[1].dispatchCode[k].index = shaderIndex
            /\ \E k \in 1 .. Len(composed[1].dispatchCodeSphere) :
                 composed[1].dispatchCodeSphere[k].index = shaderIndex

\* A material whose shader path was given index 2 is packed with 2.
C18_Witness ==
  /\ Composed
  /\ packed # << >>
  /\ packed[1] \in DOMAIN shaderPathToIndex
  /\ packed[2] = 2

\* C19: a lookup at a voxel coordinate with a component below 0 or at or
\* above the resolution of its axis returns exactly 0 and reads no byte
\* of the density array; a lookup in range reads exactly the byte at
\* z * resY * resX + y * resX + x and returns it.
C19_OutOfRangeDensityZero ==
  lookup # << >> =>
    LET c == lookup[1]
        x == c.idx[1]
        y == c.idx[2]
        z == c.idx[3]
        outside == \E a \in Axes : c.idx[a] < 0 \/ c.idx[a] >= resolution[a]
        at == z * resolution[2] * resolution[1] + y * resolution[1] + x
    IN /\ outside => c.value = 0 /\ c.read = {}
       /\ ~outside => c.read = { at } /\ c.value = volumeData[at]
       /\ c.call = "getDensity" =>
            /\ c.density[1] = c.value
            /\ outside => c.density[1] = 0

\* A lookup above the resolution on one axis only, in a volume where the
\* index formula would still land inside the array.
C19_Witness ==
  /\ lookup # << >>
  /\ resolution = << 2, 2, 1 >>
  /\ lookup[1].idx = << 2, 0, 0 >>
  /\ lookup[1].value = 0

\* C20: hit returns no hit for every ray that is parallel to an axis
\* (direction component within epsilon of zero) and whose origin is
\* outside that axis's slab [v0, v1].
C20_ParallelOutsideSlabMisses ==
  hitResult # << >> =>
    LET c == hitResult[1]
    IN ( \E a \in Axes :
           /\ Abs(c.direction[a]) <= EPSILON
           /\ c.origin[a] < v0[a] \/ c.origin[a] > v1[a] )
       => ~c.hit

\* C21: reading the five groups of a packed material back at their fixed
\* slots gives every field of the material, and the third slot of the
\* third group, read as an integer, is the resolved shader index.
C21_PackRoundTrip ==
  packed # << >> =>
    LET gpu == packed[3]
        m == packed[4]
    IN /\ << gpu.colorAndAmbient[1], gpu.colorAndAmbient[2],
              gpu.colorAndAmbient[3] >> = m.color
       /\ gpu.colorAndAmbient[4] = m.ambient
       /\ gpu.diffuseSpecularShiny[1] = m.diffuse
       /\ gpu.diffuseSpecularShiny[2] = m.specular
       /\ gpu.diffuseSpecularShiny[3] = m.shininess
       /\ gpu.diffuseSpecularShiny[4] = m.reflectivity
       /\ gpu.transparencyEmissive[1] = m.transparency
       /\ gpu.transparencyEmissive[2] = m.emissiveStrength
       /\ gpu.transparencyEmissive[3] = packed[2]
       /\ << gpu.emissive[1], gpu.emissive[2], gpu.emissive[3] >> = m.emissive
       /\ << gpu.scatterAndAbsorption[1], gpu.scatterAndAbsorption[2],
              gpu.scatterAndAbsorption[3] >> = m.scatterColor
       /\ gpu.scatterAndAbsorption[4] = m.absorptionCoeff

\* A material with seventeen different field values and a shader of
\* index 3 was packed.
C21_Witness ==
  /\ packed # << >>
  /\ packed[2] = 3
  /\ packed[4].absorptionCoeff = 17
  /\ packed[3].transparencyEmissive[3] = 3

\* C22: an upload is all-or-nothing: whatever arrays updateScene is given
\* (longer than the buffer, or with a failing memory map), no copy goes
\* outside its destination buffer or through an unmapped pointer.
C22_UploadAllOrNothing ==
  overflow = {}

\* C30: in an updateScene call whose copies are all defined, a buffer whose
\* array is empty keeps its contents, and an array of n records replaces
\* the first n records of its buffer and leaves the records after them as
\* an earlier upload left them.
C30_UploadOverwritesPrefix ==
  [][ (updates' = updates + 1 /\ pc' # "undefined") =>
        \A b \in BufferNames :
          LET n == lastUpload'[1][b] IN
            /\ (n = 0 => bufData'[b] = bufData[b])
            /\ \A r \in 1 .. BufCap :
                  bufData'[b][r] = IF r <= n THEN updates' ELSE bufData[b][r]
    ]_vars

\* A second upload of one sphere over an earlier upload of every array:
\* the first sphere record is new, the rest is the earlier upload's.
C30_Witness ==
  /\ updates = 2
  /\ pc = "idle"
  /\ lastUpload[1]["vkSphereBuffer"] = 1
  /\ lastUpload[1]["vkLightBuffer"] = 0
  /\ bufData["vkSphereBuffer"][1] = 2
  /\ \A r \in 2 .. BufCap : bufData["vkSphereBuffer"][r] = 1
  /\ \A r \in 1 .. BufCap : bufData["vkLightBuffer"][r] = 1

\* C23: a render call makes its calls in this order: wait for the slot's
\* fence, reset it, reset the slot's command buffer, begin recording,
\* layout barrier, bind pipeline, bind descriptor set, push constants,
\* dispatch, end recording, submit, and only then advance currentFrame;
\* every one of them, the submit with its fence included, uses the slot
\* the call waited on.
C23_RenderStepOrder ==
  renderLog # << >> =>
    LET s == renderLog[1][2] IN
      /\ [ i \in 1 .. Len(renderLog) |-> renderLog[i][1] ] =
           << "vkWaitForFences", "vkResetFences", "vkResetCommandBuffer",
              "vkBeginCommandBuffer", "vkCmdPipelineBarrier",
              "vkCmdBindPipeline", "vkCmdBindDescriptorSets",
              "vkCmdPushConstants", "vkCmdDispatch", "vkEndCommandBuffer",
              "vkQueueSubmit", "advance" >>
      /\ \A i \in 1 .. Len(renderLog) : renderLog[i][2] = s
      /\ currentFrame = (s + 1) % MAX_FRAMES_IN_FLIGHT
      /\ \E i \in 1 .. Len(subs) :
            /\ IsRender(subs, i)
            /\ subs[i].slot = s
            /\ \A j \in i + 1 .. Len(subs) : ~IsRender(subs, j)

\* Two render calls have returned; the second one used slot 1.
C23_Witness ==
  /\ renderCalls = 2
  /\ pc = "idle"
  /\ renderLog # << >>
  /\ renderLog[1] = << "vkWaitForFences", 1 >>
  /\ renderLog[11] = << "vkQueueSubmit", 1 >>

\* C24: for every positive width and height, groupCountX and groupCountY
\* workgroups of 8 invocations cover the image, with fewer than 8 surplus
\* invocations along each axis.
C24_DispatchCoversImage ==
  groupCount # << >> =>
    /\ 8 * groupCount[1] >= windowWidth
    /\ 8 * groupCount[1] - windowWidth < 8
    /\ 8 * groupCount[2] >= windowHeight
    /\ 8 * groupCount[2] - windowHeight < 8

\* A 17 x 8 image was dispatched: three groups across (7 surplus), one
\* down (none).
C24_Witness ==
  /\ windowWidth = 17
  /\ windowHeight = 8
  /\ groupCount = << 3, 1 >>

\* The axes a direction is not parallel to.
C25_Constraining(direction) ==
  { a \in Axes : direction[a] > EPSILON \/ direction[a] < -EPSILON }

\* C25: getExitPoint always returns a point, and its t1 is the smallest
\* far-slab parameter of the axes the ray is not parallel to: an axis the
\* ray is parallel to changes nothing, wherever the entry point lies on
\* it, also where hit rejects the ray as parallel and outside the slab.
\* The point returned is entryPoint + direction * t1.
C25_ExitIgnoresParallelAxes ==
  exitResult # << >> =>
    LET r == exitResult[1]
        axes == C25_Constraining(r.direction)
        far == { (IF r.direction[a] < 0
                    THEN 8 * (v0[a] - r.entryPoint[a])
                    ELSE 8 * (v1[a] - r.entryPoint[a])) \div r.direction[a] :
                 a \in axes }
    IN IF axes = {}
         THEN r.t1 = << >>
         ELSE /\ r.t1 # << >>
              /\ r.t1[1] \in far
              /\ \A t \in far : r.t1[1] <= t
              /\ r.point = << [ a \in Axes |->
                     8 * r.entryPoint[a] + r.direction[a] * r.t1[1] ] >>

\* getExitPoint returned a point for a ray that is parallel to the x axis
\* and enters outside the x slab by more than the tolerance, a ray hit
\* rejects.
C25_Witness ==
  /\ exitResult # << >>
  /\ exitResult[1].direction[1] = 2
  /\ exitResult[1].direction[2] = 8
  /\ exitResult[1].entryPoint[1] = v1[1] + Reach
  /\ ~hit(exitResult[1].entryPoint, exitResult[1].direction, 0, 800)
  /\ exitResult[1].t1 # << >>
  /\ exitResult[1].point # << >>

\* C26: at most MAX_FRAMES_IN_FLIGHT render submissions are submitted and
\* not completed; a slot's command buffer is submitted again only after
\* its earlier submissions have completed; currentFrame stays within
\* 0 .. MAX_FRAMES_IN_FLIGHT - 1, moves to the next slot modulo
\* MAX_FRAMES_IN_FLIGHT when a render call returns and changes at no
\* other step.
C26_FramesInFlightBounded ==
  /\ [](/\ Cardinality({ i \in RenderSubs(subs) : ~subs[i].done })
             <= MAX_FRAMES_IN_FLIGHT
        /\ \A i \in RenderSubs(subs) : \A j \in RenderSubs(subs) :
             (i < j /\ subs[i].slot = subs[j].slot) => subs[i].done
        /\ currentFrame \in 0 .. MAX_FRAMES_IN_FLIGHT - 1)
  /\ [][ IF pc = "render" /\ pc' = "idle"
           THEN currentFrame' = (currentFrame + 1) % MAX_FRAMES_IN_FLIGHT
           ELSE currentFrame' = currentFrame ]_vars

\* Three render calls have returned, the third reusing slot 0, and the
\* last two submissions are both still executing.
C26_Witness ==
  /\ renderCalls = 3
  /\ pc = "idle"
  /\ currentFrame = 1
  /\ Len(subs) = 3
  /\ subs[1].done /\ ~subs[2].done /\ ~subs[3].done
  /\ subs[3].slot = 0

\* C27: shutdown destroys device objects only when no submission is still
\* executing: with a device it first waits for the device to be idle, so
\* every render, blit and copy submission has completed at the step that
\* destroys the fences, buffers, images, pipeline and command pool.
C27_ShutdownWaitsForIdle ==
  [][ destroyLog' # destroyLog =>
        /\ pc = "shutdown"
        /\ \A i \in 1 .. Len(subs) : subs[i].done ]_vars

\* shutdown has destroyed the fences and the command pool of a renderer
\* that had submitted two render calls and a transfer.
C27_Witness ==
  /\ shutdowns = 1
  /\ Len(subs) = 3
  /\ \E i \in 1 .. Len(destroyLog) : destroyLog[i] = "vkInFlightFences"
  /\ \E i \in 1 .. Len(destroyLog) : destroyLog[i] = "vkCommandPool"
  /\ object["vkCommandPool"] = "destroyed"

\* C28: every render call returns, the device completing what it
\* accepted: while render waits on the fence of its slot, that fence is
\* signaled or is the fence of a submission that was queued and has not
\* signaled yet.
C28_RenderReturns ==
  /\ [](pc = "render" =>
          \/ fenceSignaled[currentFrame]
          \/ \E i \in InFlight(subs) : subs[i].slot = currentFrame)
  /\ (pc = "render") ~> (pc = "idle")

\* C29: the outcome of loadAndInjectSurfaceShaders does not depend on the
\* order in which the directory is enumerated: with the same files, the
\* same template and the same map handed in, every enumeration order
\* gives the path-to-index map and the composed kernel source (injected
\* code and both dispatch ladders) of the call that was made.  Compared
\* in the state the call leaves behind.
C29_EnumerationOrderIrrelevant ==
  (composed # << >> /\ packed = << >>) =>
    \A other \in Enumerations(Listed(surfaceDir)) :
      LET again == loadAndInjectSurfaceShaders(
                     composed[3].readable, composed[3].template,
                     composed[3].exists, surfaceDir, other, composed[2])
      IN /\ again.threw = composed[1].threw
         /\ again.map = composed[1].map
         /\ again.mainShader = composed[1].mainShader
         /\ again.dispatchCode = composed[1].dispatchCode
         /\ again.dispatchCodeSphere = composed[1].dispatchCodeSphere

\* Three modules, which a directory can enumerate in six orders, were
\* composed and got the indices 1, 2, 3 in path order.
C29_Witness ==
  /\ composed # << >>
  /\ packed = << >>
  /\ ~composed[1].threw
  /\ Cardinality(Enumerations(Listed(surfaceDir))) = 6
  /\ DOMAIN composed[1].map = { 1, 2, 3 }
  /\ \A p \in { 1, 2, 3 } : composed[1].map[p] = p
  /\ Len(composed[1].dispatchCode) = 3

====
